---- MODULE Spec2Model ----
(***************************************************************************)
(* Port LED classification and aggregation of stratum/hal/lib/common/      *)
(* utils.cc: FindPortLedColorAndState maps the four state observations of  *)
(* one port to a PortLedConfig (a pair of LedColor and LedState), and      *)
(* AggregatePortLedColorsStatePairs folds a vector of such pairs into one. *)
(***************************************************************************)
EXTENDS Integers, Sequences, FiniteSets, TLC

(* Longest vector of pairs handed to the aggregator. *)
MaxLen == 3

(* ------------------------------ enumerations --------------------------- *)

AdminState == {"ADMIN_STATE_UNKNOWN", "ADMIN_STATE_ENABLED",
               "ADMIN_STATE_DISABLED", "ADMIN_STATE_DIAG"}

PortState == {"PORT_STATE_UNKNOWN", "PORT_STATE_UP",
              "PORT_STATE_DOWN", "PORT_STATE_FAILED"}

HealthState == {"HEALTH_STATE_UNKNOWN", "HEALTH_STATE_GOOD", "HEALTH_STATE_BAD"}

TrunkMemberBlockState == {"TRUNK_MEMBER_BLOCK_STATE_UNKNOWN",
                          "TRUNK_MEMBER_BLOCK_STATE_FORWARDING",
                          "TRUNK_MEMBER_BLOCK_STATE_BLOCKED"}

LedColor == {"LED_COLOR_UNKNOWN", "LED_COLOR_GREEN", "LED_COLOR_AMBER"}

LedState == {"LED_STATE_UNKNOWN", "LED_STATE_OFF", "LED_STATE_SOLID",
             "LED_STATE_BLINKING_SLOW", "LED_STATE_BLINKING_FAST"}

(* PortLedConfig is std::pair<LedColor, LedState>: <<first, second>>. *)
PortLedConfig == LedColor \X LedState

(* A local or parameter of a function that is not executing. *)
NotSet == "NOT_SET"

(* A PortLedConfig that has not been produced: both fields unset. *)
NoConfig == <<NotSet, NotSet>>

(* ------------------------------ pure functions ------------------------- *)

FindPortLedColorAndState_AdminDisabledOnly(admin, oper, health, block) ==
  IF admin = "ADMIN_STATE_DISABLED"
    THEN <<"LED_COLOR_AMBER", "LED_STATE_SOLID">>
  ELSE IF oper # "PORT_STATE_UP"
    THEN <<"LED_COLOR_GREEN", "LED_STATE_OFF">>
  ELSE IF block = "TRUNK_MEMBER_BLOCK_STATE_BLOCKED"
    THEN <<"LED_COLOR_GREEN", "LED_STATE_BLINKING_SLOW">>
  ELSE IF health = "HEALTH_STATE_GOOD"
    THEN <<"LED_COLOR_GREEN", "LED_STATE_SOLID">>
  ELSE IF health = "HEALTH_STATE_BAD"
    THEN <<"LED_COLOR_AMBER", "LED_STATE_BLINKING_FAST">>
  ELSE <<"LED_COLOR_GREEN", "LED_STATE_BLINKING_FAST">>

FindPortLedColorAndState_OperDownOnly(admin, oper, health, block) ==
  IF admin # "ADMIN_STATE_ENABLED"
    THEN <<"LED_COLOR_AMBER", "LED_STATE_SOLID">>
  ELSE IF oper = "PORT_STATE_DOWN"
    THEN <<"LED_COLOR_GREEN", "LED_STATE_OFF">>
  ELSE IF block = "TRUNK_MEMBER_BLOCK_STATE_BLOCKED"
    THEN <<"LED_COLOR_GREEN", "LED_STATE_BLINKING_SLOW">>
  ELSE IF health = "HEALTH_STATE_GOOD"
    THEN <<"LED_COLOR_GREEN", "LED_STATE_SOLID">>
  ELSE IF health = "HEALTH_STATE_BAD"
    THEN <<"LED_COLOR_AMBER", "LED_STATE_BLINKING_FAST">>
  ELSE <<"LED_COLOR_GREEN", "LED_STATE_BLINKING_FAST">>

FindPortLedColorAndState_HealthBeforeBlock(admin, oper, health, block) ==
  IF admin # "ADMIN_STATE_ENABLED"
    THEN <<"LED_COLOR_AMBER", "LED_STATE_SOLID">>
  ELSE IF oper # "PORT_STATE_UP"
    THEN <<"LED_COLOR_GREEN", "LED_STATE_OFF">>
  ELSE IF health = "HEALTH_STATE_BAD"
    THEN <<"LED_COLOR_AMBER", "LED_STATE_BLINKING_FAST">>
  ELSE IF block = "TRUNK_MEMBER_BLOCK_STATE_BLOCKED"
    THEN <<"LED_COLOR_GREEN", "LED_STATE_BLINKING_SLOW">>
  ELSE IF health = "HEALTH_STATE_GOOD"
    THEN <<"LED_COLOR_GREEN", "LED_STATE_SOLID">>
  ELSE <<"LED_COLOR_GREEN", "LED_STATE_BLINKING_FAST">>

FindPortLedColorAndState_BlockedUnlessForwarding(admin, oper, health, block) ==
  IF admin # "ADMIN_STATE_ENABLED"
    THEN <<"LED_COLOR_AMBER", "LED_STATE_SOLID">>
  ELSE IF oper # "PORT_STATE_UP"
    THEN <<"LED_COLOR_GREEN", "LED_STATE_OFF">>
  ELSE IF block # "TRUNK_MEMBER_BLOCK_STATE_FORWARDING"
    THEN <<"LED_COLOR_GREEN", "LED_STATE_BLINKING_SLOW">>
  ELSE IF health = "HEALTH_STATE_GOOD"
    THEN <<"LED_COLOR_GREEN", "LED_STATE_SOLID">>
  ELSE IF health = "HEALTH_STATE_BAD"
    THEN <<"LED_COLOR_AMBER", "LED_STATE_BLINKING_FAST">>
  ELSE <<"LED_COLOR_GREEN", "LED_STATE_BLINKING_FAST">>

(* The value FindPortLedColorAndState returns: sequential conditionals,    *)
(* first match wins.                                                       *)
FindPortLedColorAndState(admin, oper, health, block) ==
  IF admin # "ADMIN_STATE_ENABLED"
    THEN <<"LED_COLOR_AMBER", "LED_STATE_SOLID">>
  ELSE IF oper # "PORT_STATE_UP"
    THEN <<"LED_COLOR_GREEN", "LED_STATE_OFF">>
  ELSE IF block = "TRUNK_MEMBER_BLOCK_STATE_BLOCKED"
    THEN <<"LED_COLOR_GREEN", "LED_STATE_BLINKING_SLOW">>
  ELSE IF health = "HEALTH_STATE_GOOD"
    THEN <<"LED_COLOR_GREEN", "LED_STATE_SOLID">>
  ELSE IF health = "HEALTH_STATE_BAD"
    THEN <<"LED_COLOR_AMBER", "LED_STATE_BLINKING_FAST">>
  ELSE <<"LED_COLOR_GREEN", "LED_STATE_BLINKING_FAST">>

(* The return value of AggregatePortLedColorsStatePairs for an empty vector. *)
EmptyAggregate_Off == <<"LED_COLOR_UNKNOWN", "LED_STATE_OFF">>

EmptyAggregate == <<"LED_COLOR_UNKNOWN", "LED_STATE_UNKNOWN">>

(* The accumulator the scan starts from: the first element of the vector.  *)
FirstPair(pairs) == <<pairs[1][1], pairs[1][2]>>

(* One iteration of the while loop: the accumulator <<aggregate_color,     *)
(* aggregate_state>> after element e = *it has been examined.              *)
MergePair_ElementAlarmOnly(acc, e) ==
  IF acc[1] # e[1] \/ acc[2] # e[2]
    THEN IF e[1] = "LED_COLOR_AMBER"
            /\ (e[2] = "LED_STATE_BLINKING_SLOW" \/ e[2] = "LED_STATE_BLINKING_FAST")
           THEN <<"LED_COLOR_AMBER", "LED_STATE_BLINKING_SLOW">>
           ELSE <<"LED_COLOR_AMBER", "LED_STATE_SOLID">>
    ELSE acc

MergePair_AccumulatorAlarmOnly(acc, e) ==
  IF acc[1] # e[1] \/ acc[2] # e[2]
    THEN IF acc[1] = "LED_COLOR_AMBER"
            /\ (acc[2] = "LED_STATE_BLINKING_SLOW" \/ acc[2] = "LED_STATE_BLINKING_FAST")
           THEN <<"LED_COLOR_AMBER", "LED_STATE_BLINKING_SLOW">>
           ELSE <<"LED_COLOR_AMBER", "LED_STATE_SOLID">>
    ELSE acc

MergePair_SlowAlarmOnly(acc, e) ==
  IF acc[1] # e[1] \/ acc[2] # e[2]
    THEN IF (acc[1] = "LED_COLOR_AMBER" /\ acc[2] = "LED_STATE_BLINKING_SLOW")
            \/ (e[1] = "LED_COLOR_AMBER" /\ e[2] = "LED_STATE_BLINKING_SLOW")
           THEN <<"LED_COLOR_AMBER", "LED_STATE_BLINKING_SLOW">>
           ELSE <<"LED_COLOR_AMBER", "LED_STATE_SOLID">>
    ELSE acc

MergePair_ColorConflictOnly(acc, e) ==
  IF acc[1] # e[1]
    THEN IF (acc[1] = "LED_COLOR_AMBER"
             /\ (acc[2] = "LED_STATE_BLINKING_SLOW" \/ acc[2] = "LED_STATE_BLINKING_FAST"))
            \/ (e[1] = "LED_COLOR_AMBER"
                /\ (e[2] = "LED_STATE_BLINKING_SLOW" \/ e[2] = "LED_STATE_BLINKING_FAST"))
           THEN <<"LED_COLOR_AMBER", "LED_STATE_BLINKING_SLOW">>
           ELSE <<"LED_COLOR_AMBER", "LED_STATE_SOLID">>
    ELSE acc

MergePair_ConflictOff(acc, e) ==
  IF acc[1] # e[1] \/ acc[2] # e[2]
    THEN IF (acc[1] = "LED_COLOR_AMBER"
             /\ (acc[2] = "LED_STATE_BLINKING_SLOW" \/ acc[2] = "LED_STATE_BLINKING_FAST"))
            \/ (e[1] = "LED_COLOR_AMBER"
                /\ (e[2] = "LED_STATE_BLINKING_SLOW" \/ e[2] = "LED_STATE_BLINKING_FAST"))
           THEN <<"LED_COLOR_AMBER", "LED_STATE_BLINKING_SLOW">>
           ELSE <<"LED_COLOR_AMBER", "LED_STATE_OFF">>
    ELSE acc

MergePair(acc, e) ==
  IF acc[1] # e[1] \/ acc[2] # e[2]
    THEN IF (acc[1] = "LED_COLOR_AMBER"
             /\ (acc[2] = "LED_STATE_BLINKING_SLOW" \/ acc[2] = "LED_STATE_BLINKING_FAST"))
            \/ (e[1] = "LED_COLOR_AMBER"
                /\ (e[2] = "LED_STATE_BLINKING_SLOW" \/ e[2] = "LED_STATE_BLINKING_FAST"))
           THEN <<"LED_COLOR_AMBER", "LED_STATE_BLINKING_SLOW">>
           ELSE <<"LED_COLOR_AMBER", "LED_STATE_SOLID">>
    ELSE acc

(* The scan from iterator position i with accumulator acc to the end.      *)
RECURSIVE AggregateFrom(_, _, _)
AggregateFrom(pairs, i, acc) ==
  IF i > Len(pairs) THEN acc
  ELSE AggregateFrom(pairs, i + 1, MergePair(acc, pairs[i]))

(* The value AggregatePortLedColorsStatePairs returns for a vector.        *)
AggregatePortLedColorsStatePairs(pairs) ==
  IF pairs = <<>> THEN EmptyAggregate
  ELSE AggregateFrom(pairs, 2, FirstPair(pairs))

(* ------------------------------ state ---------------------------------- *)

VARIABLES
  admin_state, oper_state, health_state, block_state,  \* arguments of the last classifier call
  led_config,         \* the PortLedConfig that call returned, until the caller stores it
  color_state_pairs,  \* the vector handed to the aggregator
  pc,                 \* "idle", "loop" (inside the while loop) or "done" (returned)
  it,                 \* iterator, as a 1-based index; Len + 1 is end()
  aggregate_color, aggregate_state,  \* the aggregator's locals
  result              \* the PortLedConfig the aggregator returned

vars == <<admin_state, oper_state, health_state, block_state, led_config,
          color_state_pairs, pc, it, aggregate_color, aggregate_state, result>>

classifier_vars == <<admin_state, oper_state, health_state, block_state, led_config>>

aggregator_vars == <<pc, it, aggregate_color, aggregate_state, result>>

(* All vectors of at most n pairs drawn from S. *)
VectorsUpTo(S, n) == UNION {[1..k -> S] : k \in 0..n}

(* ------------------------------ classifier ----------------------------- *)

(* A caller classifies one port. *)
CallFindPortLedColorAndState ==
  /\ pc = "idle"
  /\ led_config = NoConfig
  /\ Len(color_state_pairs) < MaxLen
  /\ \E a \in AdminState, o \in PortState, h \in HealthState, b \in TrunkMemberBlockState :
       /\ admin_state' = a
       /\ oper_state' = o
       /\ health_state' = h
       /\ block_state' = b
       /\ led_config' = FindPortLedColorAndState(a, o, h, b)
  /\ UNCHANGED <<color_state_pairs, aggregator_vars>>

(* The caller appends the classified pair to the vector of a trunk's members. *)
CollectPortLedConfig ==
  /\ pc = "idle"
  /\ led_config # NoConfig
  /\ color_state_pairs' = Append(color_state_pairs, led_config)
  /\ led_config' = NoConfig
  /\ admin_state' = NotSet
  /\ oper_state' = NotSet
  /\ health_state' = NotSet
  /\ block_state' = NotSet
  /\ UNCHANGED aggregator_vars

(* ------------------------------ aggregator ----------------------------- *)

(* Entry with an empty vector: early return. *)
AggregateEmpty ==
  /\ pc = "idle"
  /\ led_config = NoConfig
  /\ color_state_pairs = <<>>
  /\ result' = EmptyAggregate
  /\ pc' = "done"
  /\ UNCHANGED <<classifier_vars, color_state_pairs, it, aggregate_color, aggregate_state>>

(* Entry with a non-empty vector: the accumulator is the first element and *)
(* the iterator moves to the second.                                       *)
AggregateBegin ==
  /\ pc = "idle"
  /\ led_config = NoConfig
  /\ color_state_pairs # <<>>
  /\ aggregate_color' = FirstPair(color_state_pairs)[1]
  /\ aggregate_state' = FirstPair(color_state_pairs)[2]
  /\ it' = 2
  /\ pc' = "loop"
  /\ UNCHANGED <<classifier_vars, color_state_pairs, result>>

(* One iteration of the while loop. *)
AggregateStep ==
  /\ pc = "loop"
  /\ it <= Len(color_state_pairs)
  /\ LET merged == MergePair(<<aggregate_color, aggregate_state>>, color_state_pairs[it])
     IN /\ aggregate_color' = merged[1]
        /\ aggregate_state' = merged[2]
  /\ it' = it + 1
  /\ UNCHANGED <<classifier_vars, color_state_pairs, pc, result>>

(* The loop ends at end() and the accumulator is returned. *)
AggregateReturn ==
  /\ pc = "loop"
  /\ it > Len(color_state_pairs)
  /\ result' = <<aggregate_color, aggregate_state>>
  /\ pc' = "done"
  /\ UNCHANGED <<classifier_vars, color_state_pairs, it, aggregate_color, aggregate_state>>

(* ------------------------------ specifications ------------------------- *)

AggregatorIdle ==
  /\ pc = "idle"
  /\ it = 0
  /\ aggregate_color = NotSet
  /\ aggregate_state = NotSet
  /\ result = NoConfig

ClassifierIdle ==
  /\ admin_state = NotSet
  /\ oper_state = NotSet
  /\ health_state = NotSet
  /\ block_state = NotSet
  /\ led_config = NoConfig

(* Ports are classified one by one into a vector, which is then aggregated. *)
Init ==
  /\ ClassifierIdle
  /\ AggregatorIdle
  /\ color_state_pairs = <<>>

Next ==
  \/ CallFindPortLedColorAndState
  \/ CollectPortLedConfig
  \/ AggregateEmpty
  \/ AggregateBegin
  \/ AggregateStep
  \/ AggregateReturn

Spec == Init /\ [][Next]_vars

(* The aggregator is called on an arbitrary vector of PortLedConfig values. *)
InitAgg ==
  /\ ClassifierIdle
  /\ AggregatorIdle
  /\ color_state_pairs \in VectorsUpTo(PortLedConfig, MaxLen)

NextAgg ==
  \/ AggregateEmpty
  \/ AggregateBegin
  \/ AggregateStep
  \/ AggregateReturn

SpecAgg == InitAgg /\ [][NextAgg]_vars

TypeOK ==
  /\ admin_state \in AdminState \cup {NotSet}
  /\ oper_state \in PortState \cup {NotSet}
  /\ health_state \in HealthState \cup {NotSet}
  /\ block_state \in TrunkMemberBlockState \cup {NotSet}
  /\ led_config \in PortLedConfig \cup {NoConfig}
  /\ color_state_pairs \in VectorsUpTo(PortLedConfig, MaxLen)
  /\ pc \in {"idle", "loop", "done"}
  /\ it \in 0..(MaxLen + 1)
  /\ aggregate_color \in LedColor \cup {NotSet}
  /\ aggregate_state \in LedState \cup {NotSet}
  /\ result \in PortLedConfig \cup {NoConfig}

(* ------------------------------ properties ----------------------------- *)

AmberSolid == <<"LED_COLOR_AMBER", "LED_STATE_SOLID">>
AmberBlinkSlow == <<"LED_COLOR_AMBER", "LED_STATE_BLINKING_SLOW">>
AmberBlinkFast == <<"LED_COLOR_AMBER", "LED_STATE_BLINKING_FAST">>
GreenOff == <<"LED_COLOR_GREEN", "LED_STATE_OFF">>
GreenSolid == <<"LED_COLOR_GREEN", "LED_STATE_SOLID">>
GreenBlinkSlow == <<"LED_COLOR_GREEN", "LED_STATE_BLINKING_SLOW">>
GreenBlinkFast == <<"LED_COLOR_GREEN", "LED_STATE_BLINKING_FAST">>
UnknownUnknown == <<"LED_COLOR_UNKNOWN", "LED_STATE_UNKNOWN">>

(* The classifier has returned and its arguments and result are in view. *)
Classified == led_config # NoConfig

(* The aggregator has returned for a non-empty vector. *)
AggregatedNonEmpty == pc = "done" /\ color_state_pairs # <<>>

(* An amber-blinking alarm indicator. *)
IsAmberBlinking(x) == x \in {AmberBlinkSlow, AmberBlinkFast}

(* The accumulator while the aggregator scans. *)
Accumulator == <<aggregate_color, aggregate_state>>

(* The set of elements of a vector. *)
Elements(pairs) == {pairs[i] : i \in 1..Len(pairs)}

(* C1: whenever the admin state is not Enabled, the classifier returns     *)
(* (Amber, Solid) whatever the oper, health and block states are.          *)
C1_AdminNotEnabledIsAmberSolid ==
  (Classified /\ admin_state # "ADMIN_STATE_ENABLED") => led_config = AmberSolid

C1_Witness ==
  /\ Classified
  /\ admin_state = "ADMIN_STATE_DIAG"
  /\ oper_state = "PORT_STATE_UP"
  /\ health_state = "HEALTH_STATE_GOOD"
  /\ block_state = "TRUNK_MEMBER_BLOCK_STATE_FORWARDING"
  /\ led_config = AmberSolid

(* C2: with admin Enabled and an oper state other than Up, the classifier  *)
(* returns (Green, Off) for every health and block state.                  *)
C2_OperNotUpIsGreenOff ==
  (Classified /\ admin_state = "ADMIN_STATE_ENABLED" /\ oper_state # "PORT_STATE_UP")
    => led_config = GreenOff

C2_Witness ==
  /\ Classified
  /\ admin_state = "ADMIN_STATE_ENABLED"
  /\ oper_state = "PORT_STATE_FAILED"
  /\ health_state = "HEALTH_STATE_BAD"
  /\ block_state = "TRUNK_MEMBER_BLOCK_STATE_BLOCKED"
  /\ led_config = GreenOff

(* C3: with admin Enabled, oper Up and block Blocked, the classifier       *)
(* returns (Green, BlinkSlow) for every health state, Bad included.        *)
C3_BlockedIsGreenBlinkSlow ==
  (/\ Classified
   /\ admin_state = "ADMIN_STATE_ENABLED"
   /\ oper_state = "PORT_STATE_UP"
   /\ block_state = "TRUNK_MEMBER_BLOCK_STATE_BLOCKED")
    => led_config = GreenBlinkSlow

C3_Witness ==
  /\ Classified
  /\ admin_state = "ADMIN_STATE_ENABLED"
  /\ oper_state = "PORT_STATE_UP"
  /\ health_state = "HEALTH_STATE_BAD"
  /\ block_state = "TRUNK_MEMBER_BLOCK_STATE_BLOCKED"
  /\ led_config = GreenBlinkSlow

(* C4: with admin Enabled, oper Up and block not Blocked, the classifier   *)
(* returns (Green, Solid) for health Good, (Amber, BlinkFast) for Bad and  *)
(* (Green, BlinkFast) for Unknown, alike for block Unknown and Forwarding. *)
C4_HealthDecidesWhenNotBlocked ==
  (/\ Classified
   /\ admin_state = "ADMIN_STATE_ENABLED"
   /\ oper_state = "PORT_STATE_UP"
   /\ block_state # "TRUNK_MEMBER_BLOCK_STATE_BLOCKED")
    => /\ health_state = "HEALTH_STATE_GOOD" => led_config = GreenSolid
       /\ health_state = "HEALTH_STATE_BAD" => led_config = AmberBlinkFast
       /\ health_state = "HEALTH_STATE_UNKNOWN" => led_config = GreenBlinkFast

C4_Witness ==
  /\ Classified
  /\ admin_state = "ADMIN_STATE_ENABLED"
  /\ oper_state = "PORT_STATE_UP"
  /\ health_state = "HEALTH_STATE_BAD"
  /\ block_state = "TRUNK_MEMBER_BLOCK_STATE_UNKNOWN"
  /\ led_config = AmberBlinkFast

(* C5: the aggregate of the empty vector is (Unknown, Unknown), the        *)
(* aggregate of a one-element vector is that element, and aggregating the  *)
(* aggregate of a non-empty vector alone gives it back.                    *)
C5_EmptySingletonIdempotent ==
  pc = "done" =>
    /\ Len(color_state_pairs) = 0 => result = UnknownUnknown
    /\ Len(color_state_pairs) = 1 => result = color_state_pairs[1]
    /\ Len(color_state_pairs) >= 1 =>
         AggregatePortLedColorsStatePairs(<<result>>) = result

C5_Witness ==
  /\ pc = "done"
  /\ color_state_pairs = <<<<"LED_COLOR_UNKNOWN", "LED_STATE_BLINKING_SLOW">>>>
  /\ result = <<"LED_COLOR_UNKNOWN", "LED_STATE_BLINKING_SLOW">>

(* The merge rule in the words of the specification. *)
MergeRule(acc, e) ==
  IF e = acc THEN acc
  ELSE IF IsAmberBlinking(acc) \/ IsAmberBlinking(e) THEN AmberBlinkSlow
  ELSE AmberSolid

(* The left-to-right fold of the first n elements with that rule. *)
RECURSIVE LeftFold(_, _)
LeftFold(pairs, n) ==
  IF n = 1 THEN pairs[1] ELSE MergeRule(LeftFold(pairs, n - 1), pairs[n])

(* C6: throughout the scan the accumulator is the left fold, by the merge  *)
(* rule, of the elements consumed so far, and the value returned for a     *)
(* non-empty vector is the left fold of the whole vector.                  *)
C6_AggregateIsLeftFold ==
  /\ pc = "loop" => Accumulator = LeftFold(color_state_pairs, it - 1)
  /\ AggregatedNonEmpty => result = LeftFold(color_state_pairs, Len(color_state_pairs))

C6_Witness ==
  /\ pc = "done"
  /\ color_state_pairs = <<GreenSolid, AmberBlinkFast, GreenOff>>
  /\ result = AmberBlinkSlow

(* C7: an amber-blinking alarm is never masked. Once an amber-blinking     *)
(* element has been consumed the accumulator is amber-blinking, so is the  *)
(* returned value, and an amber-blinking accumulator stays amber-blinking  *)
(* at every later step.                                                    *)
C7_AlarmNeverMasked ==
  /\ [](/\ (pc = "loop" /\ \E i \in 1..(it - 1) : IsAmberBlinking(color_state_pairs[i]))
            => IsAmberBlinking(Accumulator)
        /\ (pc = "done" /\ \E i \in 1..Len(color_state_pairs) :
                               IsAmberBlinking(color_state_pairs[i]))
            => IsAmberBlinking(result))
  /\ [][(pc = "loop" /\ IsAmberBlinking(Accumulator))
          => /\ IsAmberBlinking(Accumulator')
             /\ pc' = "done" => IsAmberBlinking(result')]_vars

C7_Witness ==
  /\ pc = "done"
  /\ color_state_pairs = <<GreenSolid, GreenOff, AmberBlinkFast>>
  /\ result = AmberBlinkSlow

(* A vector rearranged by a permutation p of its indices. *)
Permuted(pairs, p) == [i \in 1..Len(pairs) |-> pairs[p[i]]]

(* Every rearrangement of a vector has the same aggregate. *)
OrderIndependent(pairs) ==
  \A p \in Permutations(1..Len(pairs)) :
    AggregatePortLedColorsStatePairs(Permuted(pairs, p))
      = AggregatePortLedColorsStatePairs(pairs)

(* C8 as stated: some vector has a rearrangement with a different          *)
(* aggregate, while all-equal vectors and vectors with one amber-blinking  *)
(* alarm among green elements have the same aggregate in every order.      *)
C8_OrderDependent ==
  /\ pc = "done" =>
       \E pairs \in VectorsUpTo(PortLedConfig, MaxLen) : ~OrderIndependent(pairs)
  /\ (/\ pc = "done"
      /\ \/ Cardinality(Elements(color_state_pairs)) <= 1
         \/ /\ Cardinality({i \in 1..Len(color_state_pairs) :
                              IsAmberBlinking(color_state_pairs[i])}) = 1
            /\ \A i \in 1..Len(color_state_pairs) :
                 \/ IsAmberBlinking(color_state_pairs[i])
                 \/ color_state_pairs[i][1] = "LED_COLOR_GREEN")
       => OrderIndependent(color_state_pairs)

(* C8, amended: the value returned for a vector is the aggregate of every  *)
(* rearrangement of that vector, also when the vector holds more than two  *)
(* distinct conflicting indicators.                                        *)
C8_OrderIndependent ==
  pc = "done" =>
    \A p \in Permutations(1..Len(color_state_pairs)) :
      AggregatePortLedColorsStatePairs(Permuted(color_state_pairs, p)) = result

C8_Witness ==
  /\ pc = "done"
  /\ Cardinality(Elements(color_state_pairs)) >= 3
  /\ color_state_pairs[1] = GreenSolid
  /\ color_state_pairs[2] = AmberBlinkFast
  /\ color_state_pairs[3] = GreenOff
  /\ result = AmberBlinkSlow

(* The pairs the classifier returns on some input. *)
ClassifierRange ==
  {FindPortLedColorAndState(a, o, h, b) :
     a \in AdminState, o \in PortState, h \in HealthState, b \in TrunkMemberBlockState}

(* The six pairs of the classifier's decision policy. *)
ClassifierPairs ==
  {AmberSolid, GreenOff, GreenBlinkSlow, GreenSolid, AmberBlinkFast, GreenBlinkFast}

(* C9 as stated: every pair the classifier returns, and every pair the     *)
(* aggregator returns for a vector of classifier results, is a pair the    *)
(* classifier can return; color Unknown is never paired with BlinkSlow.    *)
C9_OnlyClassifierPairs ==
  /\ Classified => led_config \in ClassifierRange
  /\ pc = "done" => result \in ClassifierRange
  /\ led_config # <<"LED_COLOR_UNKNOWN", "LED_STATE_BLINKING_SLOW">>
  /\ result # <<"LED_COLOR_UNKNOWN", "LED_STATE_BLINKING_SLOW">>

(* C9, amended: every pair the classifier returns is one of its six pairs; *)
(* the aggregator returns (Unknown, Unknown) for the empty vector and, for *)
(* a non-empty vector of classifier results, one of the six pairs or       *)
(* (Amber, BlinkSlow); color Unknown is never paired with BlinkSlow.       *)
C9_ClassifierPairsOrConflict ==
  /\ Classified => led_config \in ClassifierPairs
  /\ (pc = "done" /\ color_state_pairs = <<>>) => result = UnknownUnknown
  /\ AggregatedNonEmpty => result \in ClassifierPairs \cup {AmberBlinkSlow}
  /\ led_config # <<"LED_COLOR_UNKNOWN", "LED_STATE_BLINKING_SLOW">>
  /\ result # <<"LED_COLOR_UNKNOWN", "LED_STATE_BLINKING_SLOW">>

C9_Witness ==
  /\ pc = "done"
  /\ color_state_pairs = <<GreenSolid, AmberBlinkFast>>
  /\ result = AmberBlinkSlow

(* The closed form: a function of the set of distinct elements. *)
ClosedForm(pairs) ==
  IF Cardinality(Elements(pairs)) = 1 THEN pairs[1]
  ELSE IF \E x \in Elements(pairs) : IsAmberBlinking(x) THEN AmberBlinkSlow
  ELSE AmberSolid

(* C10: the value returned for a non-empty vector is its only element      *)
(* value when all elements are equal, else (Amber, BlinkSlow) when some    *)
(* element is amber-blinking, else (Amber, Solid); (Amber, BlinkFast) is   *)
(* returned only when every element is (Amber, BlinkFast).                 *)
C10_ClosedForm ==
  AggregatedNonEmpty =>
    /\ result = ClosedForm(color_state_pairs)
    /\ result = AmberBlinkFast => Elements(color_state_pairs) = {AmberBlinkFast}

C10_Witness ==
  /\ pc = "done"
  /\ color_state_pairs = <<AmberBlinkFast, AmberBlinkFast, GreenSolid>>
  /\ result = AmberBlinkSlow

====
